---- MODULE Spec2Model ----
(***************************************************************************)
(* CalgaryRiverBot (src/main.py): one run fetches the river-gauge feed,    *)
(* shapes the tables of four stations, formats the summary text, renders   *)
(* two charts, uploads them and posts the summary.                         *)
(*                                                                         *)
(* Representation.                                                         *)
(*  - A float is a record [nan, v, d, nz]. NaN has nan = TRUE. Any other   *)
(*    value is the exact fraction v / (Scale * d), d >= 1 and in lowest    *)
(*    terms; nz marks the negative zero (v = 0, printed "-0.0").           *)
(*  - A reading is a float of two decimals (d = 1, v in hundredths). On    *)
(*    readings round(x, 2) and round(x, 0) have one result whether the     *)
(*    value is a Python float or a numpy float64; for a value with a third *)
(*    decimal ending in 5 the two disagree, and such values are left out.  *)
(*  - A cell of the feed is [kind, v]: kind "num" (a number of v/Scale),   *)
(*    "text" (a string that is no number, such as "NA") or "null".         *)
(*  - A timestamp is a tick count; TicksPerDay ticks make a calendar day,  *)
(*    tick 0 being 2020-01-01 00:00.                                       *)
(*  - A table (DataFrame) is the sequence of its rows, a row a record.     *)
(***************************************************************************)
EXTENDS Integers, Sequences, FiniteSets, TLC

VARIABLES
    pc,          \* position of the running function
    feed,        \* rows the data API returns, in the order it returns them
    http,        \* number of HTTP fetches issued (pd.read_json on the URL)
    df,          \* main: the bulk table
    tables,      \* main: glenmore, bow, elbow, bow_c
    tweet_str,   \* main: the summary text, a sequence of text pieces
    bufs,        \* main: (buf1, buf2)
    media_list,  \* tweet_general_update: media handles so far
    api,         \* log of the calls made on the tweepy API object
    call,        \* arguments of the function under evaluation
    ret          \* what it returned

vars == <<pc, feed, http, df, tables, tweet_str, bufs, media_list, api, call, ret>>

\* fixed-point unit of a reading: two decimals
Scale == 10 * 10

\* ---------------------------------------------------------------- bounds
MaxFlow == 55
MaxTs == 2
MaxRowsPerStation == 2
TicksPerDay == 2
MaxMediaId == 3

\* ------------------------------------------------------- program constants
MARKERS == [Safe |-> "green", Warn |-> "yellow", Danger |-> "red"]

\* the dict of thresholds, in insertion order (the order .items() walks)
MARKER_LEVELS ==
    [s \in {"05BJ001"} |->
        [flow |-> << [key |-> 20, value |-> MARKERS["Safe"]],
                     [key |-> 35, value |-> MARKERS["Warn"]],
                     [key |-> 50, value |-> MARKERS["Danger"]] >>]]

STATIONS ==
    [s \in {"05BH004", "05BJ001", "05BJ008", "05BH005", "05BJ004"} |->
        CASE s = "05BH004" -> "Bow River at Calgary"
          [] s = "05BJ001" -> "Elbow River below Glenmore Dam"
          [] s = "05BJ008" -> "Glenmore Reservoir at Calgary"
          [] s = "05BH005" -> "Bow River near Cochrane"
          [] s = "05BJ004" -> "Elbow River at Bragg Creek"]

STATION_NAME_MAP ==
    [n \in {"Bow River at Calgary", "Elbow River below Glenmore Dam",
            "Glenmore Reservoir at Calgary", "Bow River near Cochrane",
            "Elbow River at Bragg Creek"} |->
        CASE n = "Bow River at Calgary" -> "Bow - YYC"
          [] n = "Elbow River below Glenmore Dam" -> "Elbow blw. Glenmore"
          [] n = "Glenmore Reservoir at Calgary" -> "Glenmore Resevoir"
          [] n = "Bow River near Cochrane" -> "Bow - Cochrane"
          [] n = "Elbow River at Bragg Creek" -> "Elbow - Bragg Creek"]

DefaultStationLimit == 5000
DefaultBulkLimit == 20000

\* ------------------------------------------------------------------ floats
NaN == [nan |-> TRUE, v |-> 0, d |-> 1, nz |-> FALSE]
Num(n) == [nan |-> FALSE, v |-> n, d |-> 1, nz |-> FALSE]
NegZero == [nan |-> FALSE, v |-> 0, d |-> 1, nz |-> TRUE]

Abs(n) == IF n < 0 THEN 0 - n ELSE n

RECURSIVE GCD(_, _)
GCD(a, b) == IF b = 0 THEN a ELSE GCD(b, a % b)

\* the float num / (Scale * den), den >= 1, in lowest terms
Frac(num, den) ==
    LET g == GCD(Abs(num), den)
    IN [nan |-> FALSE, v |-> num \div g, d |-> den \div g, nz |-> FALSE]

\* np.isnan
isnan(x) == x.nan

\* x < k for a float x and an integer k: every comparison with NaN is False
FloatLtMutant(x, k) == (~x.nan) /\ x.v <= k * Scale * x.d
FloatLt(x, k) == (~x.nan) /\ x.v < k * Scale * x.d

Min(S) == CHOOSE m \in S : \A n \in S : m <= n
Max(S) == CHOOSE m \in S : \A n \in S : m >= n

\* --------------------------------------------------------- status_symbol
\* index of the first threshold pair, in dict order, with flow < key; 0 if none
RECURSIVE FirstBelow(_, _, _)
FirstBelow(levels, flow, i) ==
    IF i > Len(levels) THEN 0
    ELSE IF FloatLt(flow, levels[i].key) THEN i
    ELSE FirstBelow(levels, flow, i + 1)

status_symbol(station_number, flow) ==
    IF station_number \in DOMAIN MARKER_LEVELS
    THEN LET levels == MARKER_LEVELS[station_number]["flow"]
             i == FirstBelow(levels, flow, 1)
         IN IF i # 0 THEN levels[i].value ELSE MARKERS["Danger"]
    ELSE ""

\* ------------------------------------------------------------------ tables
Take(s, n) == SubSeq(s, 1, IF n < Len(s) THEN n ELSE Len(s))

RECURSIVE InsertDesc(_, _)
InsertDesc(r, s) ==
    IF s = <<>> THEN <<r>>
    ELSE IF r.timestamp > Head(s).timestamp THEN <<r>> \o s
    ELSE <<Head(s)>> \o InsertDesc(r, Tail(s))

\* $order=timestamp DESC, as the data API applies it
RECURSIVE OrderByTimestampDesc(_)
OrderByTimestampDesc(s) ==
    IF s = <<>> THEN <<>>
    ELSE InsertDesc(s[Len(s)], OrderByTimestampDesc(SubSeq(s, 1, Len(s) - 1)))

\* pd.to_numeric(errors="coerce") on one cell
to_numeric(cell) == IF cell.kind = "num" THEN Num(cell.v) ELSE NaN

\* one row with level and flow made numeric
CoerceRow(r) ==
    [timestamp |-> r.timestamp, station_number |-> r.station_number,
     station_name |-> r.station_name,
     level |-> to_numeric(r.level), flow |-> to_numeric(r.flow)]

FalseValue == [kind |-> "False"]
Table(rows) == [kind |-> "table", rows |-> rows]
\* .set_index("timestamp") on the frame read from an answer without rows:
\* the frame has no column and the call raises KeyError
KeyError == [kind |-> "KeyError"]

\* the bulk fetch: the first `limit` rows the API returns, no $order asked
pull_all_recent_stations(rows, limit) ==
    IF Take(rows, limit) = <<>> THEN KeyError ELSE Table(Take(rows, limit))

\* the dict literal's items as written; a later duplicate key replaces an
\* earlier one when Python builds the dict
AGGREGATE_ITEMS ==
    << <<"level", "mean">>, <<"level_min", "min">>, <<"level_max", "max">>,
       <<"flow", "mean">>, <<"flow", "min">>, <<"flow", "max">> >>

AGGREGATE_COLUMNS ==
    [k \in {AGGREGATE_ITEMS[i][1] : i \in DOMAIN AGGREGATE_ITEMS} |->
        AGGREGATE_ITEMS[Max({i \in DOMAIN AGGREGATE_ITEMS : AGGREGATE_ITEMS[i][1] = k})][2]]

RECURSIVE SumSeq(_)
SumSeq(s) == IF s = <<>> THEN 0 ELSE Head(s) + SumSeq(Tail(s))

\* mean / min / max of a column of readings, NaN skipped; NaN when none is
\* left. The mean is the exact fraction sum / count.
Aggregate(func, xs) ==
    LET valid == SelectSeq(xs, LAMBDA x : ~x.nan)
        vals == [i \in DOMAIN valid |-> valid[i].v]
        S == {vals[i] : i \in DOMAIN vals}
    IN IF valid = <<>> THEN NaN
       ELSE CASE func = "mean" -> Frac(SumSeq(vals), Len(vals))
              [] func = "min" -> Num(Min(S))
              [] func = "max" -> Num(Max(S))

fillna0(x) == IF x.nan THEN Num(0) ELSE x

DayOf(t) == t \div TicksPerDay

\* lines 99-100: the placeholder columns
WithPlaceholders(r) ==
    [timestamp |-> r.timestamp, station_number |-> r.station_number,
     station_name |-> r.station_name, level |-> r.level, flow |-> r.flow,
     level_min |-> r.level, level_max |-> r.level,
     flow_min |-> r.flow, flow_max |-> r.flow]

\* df.resample("1D").agg(AGGREGATE_COLUMNS).fillna(0): one row per calendar
\* day from the first day with a row to the last, with the dict's columns
Resample(rows) ==
    IF rows = <<>> THEN <<>>
    ELSE LET days == {DayOf(rows[i].timestamp) : i \in DOMAIN rows}
             d0 == Min(days)
             n == Max(days) - d0 + 1
             ofDay(d) == SelectSeq(rows, LAMBDA r : DayOf(r.timestamp) = d)
             column(d, c) == [i \in DOMAIN ofDay(d) |-> ofDay(d)[i][c]]
         IN [j \in 1..n |->
               [c \in DOMAIN AGGREGATE_COLUMNS \cup {"timestamp"} |->
                  IF c = "timestamp" THEN (d0 + j - 1) * TicksPerDay
                  ELSE fillna0(Aggregate(AGGREGATE_COLUMNS[c], column(d0 + j - 1, c)))]]

\* pull_station: what it returns, or the exception it raises (ret), and how
\* many HTTP fetches it issued
pull_stationMutant(station_number, aggregate, limit, pull_from_df, remote) ==
    LET fetch == pull_from_df.kind = "False"
        src0 == IF fetch
                THEN Take(OrderByTimestampDesc(
                        SelectSeq(remote, LAMBDA r : r.station_number = station_number)), limit)
                ELSE SelectSeq(pull_from_df.rows, LAMBDA r : r.station_number = station_number)
        num == [i \in DOMAIN src0 |-> CoerceRow(src0[i])]
    IN [ret |-> Table(num), fetches |-> IF fetch THEN 1 ELSE 0]

pull_station(station_number, aggregate, limit, pull_from_df, remote) ==
    IF station_number \notin DOMAIN STATIONS
    THEN [ret |-> FalseValue, fetches |-> 0]
    ELSE LET fetch == pull_from_df.kind = "False"
             src0 == IF fetch
                     THEN Take(OrderByTimestampDesc(
                             SelectSeq(remote, LAMBDA r : r.station_number = station_number)), limit)
                     ELSE SelectSeq(pull_from_df.rows, LAMBDA r : r.station_number = station_number)
             num == [i \in DOMAIN src0 |-> CoerceRow(src0[i])]
         IN [ret |-> IF fetch /\ src0 = <<>>
                     THEN KeyError
                     ELSE IF aggregate
                     THEN Table(Resample([i \in DOMAIN num |-> WithPlaceholders(num[i])]))
                     ELSE Table(num),
             fetches |-> IF fetch THEN 1 ELSE 0]

\* ----------------------------------------------------------- gen_tweet_str
\* round(x, ndigits) of a reading, for the ndigits the program uses (0 and 2):
\* the nearest multiple of 10^-ndigits. With 2 a reading is its own rounding;
\* with 0 a reading ending in .5 is half way in binary too and goes to the
\* even neighbour. A negative reading that rounds to zero gives negative zero.
round(x, ndigits) ==
    CASE x.nan -> NaN
      [] ~x.nan /\ x.d = 1 /\ ndigits \in {0, 2} ->
            LET u == IF ndigits = 0 THEN Scale ELSE 1
                q == x.v \div u
                r == x.v % u
                n == IF 2 * r < u THEN q * u
                     ELSE IF 2 * r > u THEN (q + 1) * u
                     ELSE IF q % 2 = 0 THEN q * u ELSE (q + 1) * u
            IN IF n = 0 /\ (x.v < 0 \/ x.nz) THEN NegZero ELSE Num(n)

Pad(n, width) ==
    (IF width >= 2 /\ n < 10 THEN "0" ELSE "") \o ToString(n)

\* the text an f-string gives a reading: "nan", or the shortest decimal with
\* at least one digit after the point
FloatText(x) ==
    IF x.nan THEN "nan"
    ELSE LET a == Abs(x.v)
             f == a % Scale
         IN (IF x.v < 0 \/ x.nz THEN "-" ELSE "") \o ToString(a \div Scale) \o "." \o
            (IF f % 10 = 0 THEN ToString(f \div 10) ELSE Pad(f, 2))

\* strftime("%m/%d/%Y %H:%M %p") of a tick of January 2020
strftime(t) ==
    LET m == ((t % TicksPerDay) * 1440) \div TicksPerDay
        H == m \div 60
    IN "01/" \o Pad(DayOf(t) + 1, 2) \o "/2020 " \o Pad(H, 2) \o ":" \o Pad(m % 60, 2)
       \o (IF H < 12 THEN " AM" ELSE " PM")

\* {round(flow, 2) if not np.isnan(flow) else "N/A"}
FlowTextMutant(flow) == FloatText(round(flow, 2))
FlowText(flow) == IF ~isnan(flow) THEN FloatText(round(flow, 2)) ELSE "N/A"

\* the f-string, as the sequence of its literal and substituted pieces
gen_tweet_str(bow, elbow, glenmore, bow_c) ==
    << "River Stats ", strftime(bow.timestamp),
       "\nBow Cochrane: ", FlowText(bow_c.flow), " m3/min, ",
       FloatText(round(bow_c.level, 2)),
       " m\nBow YYC: ", FlowText(bow.flow), " m3/min, ",
       FloatText(round(bow.level, 2)),
       " m\nElbow YYC: ", status_symbol(elbow.station_number, elbow.flow), ": ",
       FlowText(elbow.flow), " m3/min, ", FloatText(round(elbow.level, 2)),
       " m\nGlenmore Resevoir: ", FloatText(round(glenmore.level, 0)), " m\n" >>

\* -------------------------------------------------------------- gen_charts
RECURSIVE Concat(_)
Concat(list) == IF list = <<>> THEN <<>> ELSE Head(list) \o Concat(Tail(list))

\* reset_index, rename and replace of lines 141-151 on one row
Rename(r) ==
    [c \in {"Date", "Flow (m3/s)", "Level (m)", "Location", "station_number"} |->
        CASE c = "Date" -> r.timestamp
          [] c = "Flow (m3/s)" -> r.flow
          [] c = "Level (m)" -> r.level
          [] c = "Location" -> IF r.station_name \in DOMAIN STATION_NAME_MAP
                               THEN STATION_NAME_MAP[r.station_name]
                               ELSE r.station_name
          [] c = "station_number" -> r.station_number]

\* the PNG buffer plot_chart returns, as the data it draws
plot_chart(d, x_str, y_str, hue_str) ==
    [kind |-> "png", y_label |-> y_str,
     points |-> [i \in DOMAIN d |->
                    [x |-> d[i][x_str], y |-> d[i][y_str], hue |-> d[i][hue_str]]]]

\* pd.concat of an empty list raises ValueError
gen_charts(df_flow_list, df_level_list) ==
    IF df_flow_list = <<>> \/ df_level_list = <<>>
    THEN [kind |-> "raise"]
    ELSE LET flow_cat == Concat(df_flow_list)
             level_cat == Concat(df_level_list)
             flow_dfs == [i \in DOMAIN flow_cat |-> Rename(flow_cat[i])]
             level_dfs == [i \in DOMAIN level_cat |-> Rename(level_cat[i])]
             \* the loop variable after `for df in [flow_dfs, level_dfs]`
             loop_df == <<flow_dfs, level_dfs>>[2]
         IN [kind |-> "bufs",
             flow |-> plot_chart(loop_df, "Date", "Flow (m3/s)", "Location"),
             level |-> plot_chart(loop_df, "Date", "Level (m)", "Location")]

\* ------------------------------------------------------------------- inputs
NoneValue == [kind |-> "None"]
NoTables == [glenmore |-> NoneValue, bow |-> NoneValue, elbow |-> NoneValue,
             bow_c |-> NoneValue]

NumCell(n) == [kind |-> "num", v |-> n]
TextCell == [kind |-> "text", v |-> 0]
NullCell == [kind |-> "null", v |-> 0]

MkRow(s, t, level, flow) ==
    [timestamp |-> t, station_number |-> s,
     station_name |-> IF s \in DOMAIN STATIONS THEN STATIONS[s] ELSE "Unknown",
     level |-> level, flow |-> flow]

SummaryStations == <<"05BJ008", "05BH004", "05BJ001", "05BH005">>

\* sequences of distinct ticks of 1..MaxTs, at most MaxRowsPerStation long
TickSeqs ==
    {q \in UNION {[1..n -> 1..MaxTs] : n \in 0..MaxRowsPerStation} :
        \A i, j \in DOMAIN q : i # j => q[i] # q[j]}

\* the rows of one station in a feed: the station's index and the tick make
\* the reading's value; a station reporting text instead of a flow is `bad`
StationRows(k, ticks, bad) ==
    [i \in DOMAIN ticks |->
        MkRow(SummaryStations[k], ticks[i],
              NumCell((1000 + k) * Scale + ticks[i] * 14),
              IF bad = k THEN TextCell ELSE NumCell((10 * k + ticks[i]) * Scale + 4))]

\* -------------------------------------------------------------------- main
\* The feeds of a run: one station with any TickSeqs rows, in any order, each
\* other station with one row or none; station `bad` (if any) reports text
\* in place of its flow.
image_list ==
    << [image |-> bufs.flow, name |-> "flow.png"],
       [image |-> bufs.level, name |-> "level.png"] >>

MainInit ==
    /\ pc = "main"
    /\ \E m \in 1..4, long \in TickSeqs, present \in [1..4 -> BOOLEAN], bad \in 0..4 :
          LET q == [k \in 1..4 |-> IF k = m THEN long
                                  ELSE IF present[k] THEN <<1>> ELSE <<>>]
          IN feed = StationRows(1, q[1], bad) \o StationRows(2, q[2], bad) \o
                    StationRows(3, q[3], bad) \o StationRows(4, q[4], bad)
    /\ http = 0
    /\ df = <<>>
    /\ tables = NoTables
    /\ tweet_str = <<>>
    /\ bufs = NoneValue
    /\ media_list = <<>>
    /\ api = <<>>
    /\ call = NoneValue
    /\ ret = NoneValue

\* line 55, the fetch answered with rows
PullAllRecentStations ==
    /\ pc = "main"
    /\ pull_all_recent_stations(feed, DefaultBulkLimit).kind = "table"
    /\ http' = http + 1
    /\ df' = pull_all_recent_stations(feed, DefaultBulkLimit).rows
    /\ pc' = "pull_station"
    /\ UNCHANGED <<feed, tables, tweet_str, bufs, media_list, api, call, ret>>

\* line 55, the fetch answered without rows: set_index raises KeyError
PullAllRecentStationsKeyError ==
    /\ pc = "main"
    /\ pull_all_recent_stations(feed, DefaultBulkLimit) = KeyError
    /\ http' = http + 1
    /\ pc' = "aborted"
    /\ UNCHANGED <<feed, df, tables, tweet_str, bufs, media_list, api, call, ret>>

\* line 55, pd.read_json raised (network or parse failure)
PullAllRecentStationsFail ==
    /\ pc = "main"
    /\ http' = http + 1
    /\ pc' = "aborted"
    /\ UNCHANGED <<feed, df, tables, tweet_str, bufs, media_list, api, call, ret>>

\* lines 58-61
PullStations ==
    /\ pc = "pull_station"
    /\ LET from == Table(df)
           g == pull_station("05BJ008", FALSE, DefaultStationLimit, from, feed)
           b == pull_station("05BH004", FALSE, DefaultStationLimit, from, feed)
           e == pull_station("05BJ001", FALSE, DefaultStationLimit, from, feed)
           c == pull_station("05BH005", FALSE, DefaultStationLimit, from, feed)
       IN /\ tables' = [glenmore |-> g.ret, bow |-> b.ret, elbow |-> e.ret, bow_c |-> c.ret]
          /\ http' = http + g.fetches + b.fetches + e.fetches + c.fetches
    /\ pc' = "gen_tweet_str"
    /\ UNCHANGED <<feed, df, tweet_str, bufs, media_list, api, call, ret>>

HasFirstRow(t) == t.kind = "table" /\ t.rows # <<>>

\* lines 64-66: .iloc[0] of each table, then the f-string
GenTweetStr ==
    /\ pc = "gen_tweet_str"
    /\ \A k \in DOMAIN tables : HasFirstRow(tables[k])
    /\ call' = [fn |-> "gen_tweet_str", bow |-> tables.bow.rows[1],
                elbow |-> tables.elbow.rows[1], glenmore |-> tables.glenmore.rows[1],
                bow_c |-> tables.bow_c.rows[1]]
    /\ tweet_str' = gen_tweet_str(tables.bow.rows[1], tables.elbow.rows[1],
                                  tables.glenmore.rows[1], tables.bow_c.rows[1])
    /\ pc' = "gen_charts"
    /\ UNCHANGED <<feed, http, df, tables, bufs, media_list, api, ret>>

\* lines 64-66: .iloc[0] of a table without rows raises IndexError
GenTweetStrIndexError ==
    /\ pc = "gen_tweet_str"
    /\ \E k \in DOMAIN tables : ~HasFirstRow(tables[k])
    /\ pc' = "aborted"
    /\ UNCHANGED <<feed, http, df, tables, tweet_str, bufs, media_list, api, call, ret>>

\* line 69, both charts rendered
GenCharts ==
    /\ pc = "gen_charts"
    /\ LET l == <<tables.bow_c.rows, tables.bow.rows, tables.elbow.rows>>
       IN /\ gen_charts(l, l).kind = "bufs"
          /\ bufs' = gen_charts(l, l)
    /\ pc' = "tweet_general_update"
    /\ UNCHANGED <<feed, http, df, tables, tweet_str, media_list, api, call, ret>>

\* line 69, the plotting library raised
GenChartsFailMutant ==
    /\ pc = "gen_charts"
    /\ bufs' = [kind |-> "bufs", flow |-> NoneValue, level |-> NoneValue]
    /\ pc' = "tweet_general_update"
    /\ UNCHANGED <<feed, http, df, tables, tweet_str, media_list, api, call, ret>>

GenChartsFail ==
    /\ pc = "gen_charts"
    /\ pc' = "aborted"
    /\ UNCHANGED <<feed, http, df, tables, tweet_str, bufs, media_list, api, call, ret>>

\* lines 207-209, one turn of the loop: the upload answered with a handle
MediaUploadMutant ==
    /\ pc = "tweet_general_update"
    /\ Len(media_list) < Len(image_list)
    /\ \E id \in 1..MaxMediaId :
          /\ \A i \in DOMAIN media_list : media_list[i] # id
          /\ api' = Append(api, [op |-> "media_upload", ok |-> TRUE,
                                 filename |-> image_list[Len(media_list) + 1].name,
                                 file |-> image_list[Len(media_list) + 1].image,
                                 media_id |-> id])
          /\ media_list' = <<id>> \o media_list
    /\ UNCHANGED <<pc, feed, http, df, tables, tweet_str, bufs, call, ret>>

MediaUpload ==
    /\ pc = "tweet_general_update"
    /\ Len(media_list) < Len(image_list)
    /\ \E id \in 1..MaxMediaId :
          /\ \A i \in DOMAIN media_list : media_list[i] # id
          /\ api' = Append(api, [op |-> "media_upload", ok |-> TRUE,
                                 filename |-> image_list[Len(media_list) + 1].name,
                                 file |-> image_list[Len(media_list) + 1].image,
                                 media_id |-> id])
          /\ media_list' = Append(media_list, id)
    /\ UNCHANGED <<pc, feed, http, df, tables, tweet_str, bufs, call, ret>>

\* line 208, api.media_upload raised
MediaUploadFail ==
    /\ pc = "tweet_general_update"
    /\ Len(media_list) < Len(image_list)
    /\ api' = Append(api, [op |-> "media_upload", ok |-> FALSE,
                           filename |-> image_list[Len(media_list) + 1].name,
                           file |-> image_list[Len(media_list) + 1].image,
                           media_id |-> 0])
    /\ pc' = "aborted"
    /\ UNCHANGED <<feed, http, df, tables, tweet_str, bufs, media_list, call, ret>>

\* line 212, the post created; main returns True
UpdateStatus ==
    /\ pc = "tweet_general_update"
    /\ Len(media_list) = Len(image_list)
    /\ api' = Append(api, [op |-> "update_status", ok |-> TRUE,
                           status |-> tweet_str, media_ids |-> media_list])
    /\ pc' = "done"
    /\ UNCHANGED <<feed, http, df, tables, tweet_str, bufs, media_list, call, ret>>

\* line 212, api.update_status raised
UpdateStatusFail ==
    /\ pc = "tweet_general_update"
    /\ Len(media_list) = Len(image_list)
    /\ api' = Append(api, [op |-> "update_status", ok |-> FALSE,
                           status |-> tweet_str, media_ids |-> media_list])
    /\ pc' = "aborted"
    /\ UNCHANGED <<feed, http, df, tables, tweet_str, bufs, media_list, call, ret>>

Init == MainInit

Next ==
    \/ PullAllRecentStations
    \/ PullAllRecentStationsKeyError
    \/ PullAllRecentStationsFail
    \/ PullStations
    \/ GenTweetStr
    \/ GenTweetStrIndexError
    \/ GenCharts
    \/ GenChartsFail
    \/ MediaUpload
    \/ MediaUploadFail
    \/ UpdateStatus
    \/ UpdateStatusFail

Spec == Init /\ [][Next]_vars

\* the variables of main, at rest while one function is evaluated alone
MainIdle ==
    /\ df = <<>>
    /\ tables = NoTables
    /\ tweet_str = <<>>
    /\ bufs = NoneValue
    /\ media_list = <<>>
    /\ api = <<>>

mainVars == <<df, tables, tweet_str, bufs, media_list, api>>

\* ------------------------------------------------- status_symbol, called alone
UnknownStation == "99ZZ999"
StationArgs == DOMAIN STATIONS \cup {UnknownStation}

FlowArgs ==
    {NaN} \cup {Num(k * Scale + d) : k \in 0..MaxFlow, d \in {0, 1, Scale - 1}}

ClassifyInit ==
    /\ pc = "status_symbol"
    /\ call \in [station_number : StationArgs, flow : FlowArgs]
    /\ ret = NoneValue
    /\ feed = <<>>
    /\ http = 0
    /\ MainIdle

StatusSymbolCall ==
    /\ pc = "status_symbol"
    /\ ret' = [kind |-> "str", value |-> status_symbol(call.station_number, call.flow)]
    /\ pc' = "return"
    /\ UNCHANGED <<feed, http, call, mainVars>>

SpecClassify == ClassifyInit /\ [][StatusSymbolCall]_vars

\* -------------------------------------------------- pull_station, called alone
MaxDay == 2
MaxFeedRows == 2

\* two ticks of the first day and one of day MaxDay
FeedTicks == {0, 1, MaxDay * TicksPerDay}

\* level and flow cells of a reading
Readings ==
    { [level |-> NumCell(1), flow |-> NumCell(10 * Scale)],
      [level |-> NumCell(2), flow |-> NumCell(20 * Scale)],
      [level |-> TextCell, flow |-> NullCell] }

FeedRows ==
    {MkRow(s, t, r.level, r.flow) : s \in {"05BJ001", "05BH004"}, t \in FeedTicks,
                                    r \in Readings}

Feeds == UNION {[1..n -> FeedRows] : n \in 0..MaxFeedRows}

StationInit ==
    /\ pc = "pull_station"
    /\ feed \in Feeds
    /\ \E s \in {"05BJ001", "05BJ004", UnknownStation}, a \in BOOLEAN,
          l \in {1, DefaultStationLimit}, p \in {FalseValue, Table(feed)} :
          call = [station_number |-> s, aggregate |-> a, limit |-> l, pull_from_df |-> p]
    /\ ret = NoneValue
    /\ http = 0
    /\ MainIdle

PullStationCall ==
    /\ pc = "pull_station"
    /\ LET r == pull_station(call.station_number, call.aggregate, call.limit,
                             call.pull_from_df, feed)
       IN /\ ret' = r.ret
          /\ http' = http + r.fetches
    /\ pc' = "return"
    /\ UNCHANGED <<feed, call, mainVars>>

\* the fetch of lines 86-88 raised (network or parse failure)
PullStationCallFail ==
    /\ pc = "pull_station"
    /\ pull_station(call.station_number, call.aggregate, call.limit,
                    call.pull_from_df, feed).fetches = 1
    /\ ret' = [kind |-> "raise"]
    /\ http' = http + 1
    /\ pc' = "return"
    /\ UNCHANGED <<feed, call, mainVars>>

StationNext == PullStationCall \/ PullStationCallFail

SpecStation == StationInit /\ [][StationNext]_vars

\* ------------------------------------------------- gen_tweet_str, called alone
\* a shaped row of station k with the given level and flow
ShapedRow(k, level, flow) ==
    [timestamp |-> k, station_number |-> SummaryStations[k],
     station_name |-> STATIONS[SummaryStations[k]], level |-> level, flow |-> flow]

ShapedRows(k) ==
    {ShapedRow(k, l, f) : l \in {NaN, Num((1048 + k) * Scale + 60)},
                          f \in {NaN, Num((12 * k) * Scale + 35)}}

TweetInit ==
    /\ pc = "gen_tweet_str"
    /\ call \in [glenmore : ShapedRows(1), bow : ShapedRows(2), elbow : ShapedRows(3),
                 bow_c : ShapedRows(4)]
    /\ ret = NoneValue
    /\ feed = <<>>
    /\ http = 0
    /\ MainIdle

GenTweetStrCall ==
    /\ pc = "gen_tweet_str"
    /\ ret' = [kind |-> "str",
               pieces |-> gen_tweet_str(call.bow, call.elbow, call.glenmore, call.bow_c)]
    /\ pc' = "return"
    /\ UNCHANGED <<feed, http, call, mainVars>>

SpecTweet == TweetInit /\ [][GenTweetStrCall]_vars

\* ---------------------------------------------------- gen_charts, called alone
MaxListLen == 2

ChartTables ==
    { <<ShapedRow(2, Num(2 * Scale), Num(30 * Scale))>>,
      <<ShapedRow(3, Num(1 * Scale), Num(15 * Scale)),
        ShapedRow(3, NaN, Num(16 * Scale))>>,
      <<ShapedRow(4, Num(4 * Scale), NaN)>> }

ChartLists == UNION {[1..n -> ChartTables] : n \in 0..MaxListLen}

ChartsInit ==
    /\ pc = "gen_charts"
    /\ call \in [df_flow_list : ChartLists, df_level_list : ChartLists]
    /\ ret = NoneValue
    /\ feed = <<>>
    /\ http = 0
    /\ MainIdle

GenChartsCall ==
    /\ pc = "gen_charts"
    /\ ret' = gen_charts(call.df_flow_list, call.df_level_list)
    /\ pc' = "return"
    /\ UNCHANGED <<feed, http, call, mainVars>>

SpecCharts == ChartsInit /\ [][GenChartsCall]_vars

\* ================================================================== claims

\* C1: for station 05BJ001 and a flow that is not missing, status_symbol
\* gives Safe below 20, Warn from 20 (included) up to 35, and Danger from 35
\* (included) on, also at and above 50 where no pair matches.
C1_ThresholdBuckets ==
    (pc = "return" /\ call.station_number = "05BJ001" /\ ~call.flow.nan) =>
        ret.value = IF call.flow.v < 20 * Scale THEN MARKERS["Safe"]
                    ELSE IF call.flow.v < 35 * Scale THEN MARKERS["Warn"]
                    ELSE MARKERS["Danger"]

C1_Witness ==
    /\ pc = "return"
    /\ call.station_number = "05BJ001"
    /\ call.flow = Num(20 * Scale)
    /\ ret.value = MARKERS["Warn"]

\* C2: a missing (NaN) flow is classified as the empty marker for every
\* station, the one with threshold rules included.
C2_MissingFlowUnclassified ==
    (pc = "return" /\ call.flow.nan) => ret.value = ""

Uploads == SelectSeq(api, LAMBDA c : c.op = "media_upload")
Posts == SelectSeq(api, LAMBDA c : c.op = "update_status")
Posted == \E i \in DOMAIN api : api[i].op = "update_status" /\ api[i].ok

\* C3: a post exists only when the fetch answered, the four tables were
\* shaped and have a row, the text was formatted, both charts were rendered
\* and both uploads succeeded; an aborted run has created no post.
C3_PostOnlyAfterEverything ==
    /\ Posted =>
          /\ pc = "done"
          /\ http = 1
          /\ df # <<>>
          /\ Table(df) = pull_all_recent_stations(feed, DefaultBulkLimit)
          /\ \A k \in DOMAIN tables : HasFirstRow(tables[k])
          /\ tweet_str # <<>>
          /\ bufs.kind = "bufs" /\ bufs.flow.kind = "png" /\ bufs.level.kind = "png"
          /\ Len(Uploads) = 2
          /\ \A i \in DOMAIN api : api[i].ok
    /\ pc = "aborted" => ~Posted

C3_Witness == pc = "done" /\ Posted /\ Len(api) = 3

\* C4: the images are uploaded once each, in list order, before the post;
\* there is at most one post, it is the last call, its text is the summary
\* and its media handles are those of the uploads in the order of the images.
C4_UploadsThenOnePost ==
    /\ Len(Uploads) <= 2
    /\ \A i \in DOMAIN Uploads :
          /\ Uploads[i].filename = <<"flow.png", "level.png">>[i]
          /\ Uploads[i].file = (IF i = 1 THEN bufs.flow ELSE bufs.level)
          /\ i < Len(Uploads) => Uploads[i].ok
    /\ Len(Posts) <= 1
    /\ \A i \in DOMAIN api :
          api[i].op = "update_status" =>
             /\ i = 3 /\ Len(api) = 3
             /\ api[1].op = "media_upload" /\ api[1].ok
             /\ api[2].op = "media_upload" /\ api[2].ok
             /\ api[i].status = tweet_str
             /\ api[i].media_ids = <<api[1].media_id, api[2].media_id>>
    /\ pc = "done" => (Len(Posts) = 1 /\ Posts[1].ok)

C4_Witness ==
    /\ pc = "done"
    /\ Len(api) = 3
    /\ api[3].media_ids = <<api[1].media_id, api[2].media_id>>
    /\ api[1].media_id > api[2].media_id
    /\ api[1].filename = "flow.png"

StationOf == [glenmore |-> "05BJ008", bow |-> "05BH004", elbow |-> "05BJ001",
              bow_c |-> "05BH005"]

\* C5: the row of each station handed to gen_tweet_str carries the greatest
\* timestamp among that station's rows of the feed, whatever the feed's order.
C5_MostRecentRowPassed ==
    tweet_str # <<>> =>
        \A k \in DOMAIN StationOf :
            \A i \in DOMAIN feed :
                feed[i].station_number = StationOf[k] =>
                    feed[i].timestamp <= call[k].timestamp

\* the source rows pull_station works on, and a day's valid values of a column
C6_Source ==
    LET mine == SelectSeq(IF call.pull_from_df.kind = "False" THEN feed
                          ELSE call.pull_from_df.rows,
                          LAMBDA r : r.station_number = call.station_number)
    IN IF call.pull_from_df.kind = "False"
       THEN Take(OrderByTimestampDesc(mine), call.limit) ELSE mine

C6_DayValues(day, metric) ==
    {C6_Source[i][metric].v : i \in {j \in DOMAIN C6_Source :
                                       /\ DayOf(C6_Source[j].timestamp) = day
                                       /\ C6_Source[j][metric].kind = "num"}}

C6_Sum(day, metric) ==
    SumSeq(LET day_rows == SelectSeq(C6_Source, LAMBDA r :
                               DayOf(r.timestamp) = day /\ r[metric].kind = "num")
           IN [i \in DOMAIN day_rows |-> day_rows[i][metric].v])

C6_Count(day, metric) ==
    Len(SelectSeq(C6_Source, LAMBDA r : DayOf(r.timestamp) = day /\ r[metric].kind = "num"))

\* the column of a day's row that holds the statistic, under either naming
C6_Columns(metric, stat) ==
    IF stat = "mean" THEN {metric, metric \o "_mean"} ELSE {metric \o "_" \o stat}

C6_Has(row, metric, stat, value) ==
    \E c \in DOMAIN row \cap C6_Columns(metric, stat) :
        ~row[c].nan /\ row[c].v = value * row[c].d

\* the mean column holds sum / count
C6_HasMean(row, metric, sum, count) ==
    \E c \in DOMAIN row \cap C6_Columns(metric, "mean") :
        ~row[c].nan /\ row[c].v * count = sum * row[c].d

\* C6: with aggregate=True every day's row holds the mean, the minimum and
\* the maximum of that day's level values and of that day's flow values, six
\* outputs, all 0 for a day without valid reading.
C6_DailyAggregates ==
    (pc = "return" /\ call.aggregate /\ ret.kind = "table") =>
        \A i \in DOMAIN ret.rows :
            LET row == ret.rows[i]
                day == DayOf(row.timestamp)
            IN \A metric \in {"level", "flow"} :
                  LET S == C6_DayValues(day, metric)
                  IN IF S = {}
                     THEN /\ C6_Has(row, metric, "mean", 0)
                          /\ C6_Has(row, metric, "min", 0)
                          /\ C6_Has(row, metric, "max", 0)
                     ELSE /\ C6_HasMean(row, metric, C6_Sum(day, metric),
                                       C6_Count(day, metric))
                          /\ C6_Has(row, metric, "min", Min(S))
                          /\ C6_Has(row, metric, "max", Max(S))

NACount(pieces) == Cardinality({i \in DOMAIN pieces : pieces[i] = "N/A"})
MissingFlows == {k \in DOMAIN StationOf : call[k].flow.nan}

\* C7 as stated: exactly one of the four rows has a missing flow, whichever
\* station it is, and the summary contains "N/A" exactly once.
C7_OneMissingFlowAnyStation ==
    (pc = "return" /\ Cardinality(MissingFlows) = 1) => NACount(ret.pieces) = 1

\* C7 amended: exactly one of the four rows has a missing flow; when it is
\* the row of Bow, Elbow or Bow Cochrane the summary contains "N/A" exactly
\* once, and when it is Glenmore's, whose flow the template does not show,
\* the summary contains no "N/A".
C7_OneMissingDisplayedFlow ==
    (pc = "return" /\ Cardinality(MissingFlows) = 1) =>
        NACount(ret.pieces) = IF MissingFlows = {"glenmore"} THEN 0 ELSE 1

C7_Witness ==
    /\ pc = "return"
    /\ MissingFlows = {"elbow"}
    /\ call.bow.level.nan
    /\ NACount(ret.pieces) = 1

\* C8: gen_tweet_str returns a string, and each missing value the template
\* shows (three flows, four levels) is the piece "N/A", none is "nan".
C8_MissingRenderedNA ==
    pc = "return" =>
        /\ ret.kind = "str"
        /\ \A i \in DOMAIN ret.pieces : ret.pieces[i] # "nan"
        /\ call.bow_c.flow.nan => ret.pieces[4] = "N/A"
        /\ call.bow_c.level.nan => ret.pieces[6] = "N/A"
        /\ call.bow.flow.nan => ret.pieces[8] = "N/A"
        /\ call.bow.level.nan => ret.pieces[10] = "N/A"
        /\ call.elbow.flow.nan => ret.pieces[14] = "N/A"
        /\ call.elbow.level.nan => ret.pieces[16] = "N/A"
        /\ call.glenmore.level.nan => ret.pieces[18] = "N/A"

\* C9: for a station identifier outside the catalog pull_station returns
\* False whatever aggregate, limit and pull_from_df are, issues no HTTP
\* fetch and leaves the table it was handed as it was.
C9_UnknownStationSentinel ==
    (pc = "return" /\ call.station_number \notin DOMAIN STATIONS) =>
        /\ ret = FalseValue
        /\ http = 0
        /\ call.pull_from_df \in {FalseValue, Table(feed)}

C9_Witness ==
    /\ pc = "return"
    /\ call.station_number = UnknownStation
    /\ call.aggregate
    /\ call.pull_from_df.kind = "table"
    /\ call.pull_from_df.rows # <<>>
    /\ ret = FalseValue

C10_Points(list, metric) ==
    LET cat == Concat(list)
    IN [i \in DOMAIN cat |->
          [x |-> cat[i].timestamp, y |-> cat[i][metric],
           hue |-> STATION_NAME_MAP[cat[i].station_name]]]

\* C10: the flow chart draws the rows combined from the flow-series argument
\* and the level chart those combined from the level-series argument.
C10_FlowChartFromFlowSeries ==
    (pc = "return" /\ ret.kind = "bufs") =>
        /\ ret.flow.points = C10_Points(call.df_flow_list, "flow")
        /\ ret.level.points = C10_Points(call.df_level_list, "level")

====
